---- MODULE Spec2Model ----
(***************************************************************************)
(* Model of shapefile_reporter.py: the directory scan of                   *)
(* process_shapefiles, the report builder (sort, display copy, highlight)  *)
(* and the Streamlit script body that runs when the Process button is      *)
(* pressed.                                                                *)
(*                                                                         *)
(* Python strings are sequences of one-character strings, so that          *)
(* lower(), endswith(), split(), int(), len() and the code-point order     *)
(* used by sort_values are computed, not assumed.                          *)
(***************************************************************************)
EXTENDS Integers, Sequences, FiniteSets, TLC

(***************************************************************************)
(* Python str primitives                                                   *)
(***************************************************************************)

\* The alphabet is ASCII.  A character TLA+ cannot write in a string is
\* named by its code point: "U+000B" is the vertical tab, "U+0060" the
\* grave accent.  Characters
\* beyond ASCII are outside the alphabet, except as opaque tokens ("U+26A0")
\* that are never compared, lowercased or parsed.
VerticalTab == "U+000B"

\* The printable ASCII characters, code points 32 to 126 in order.
Printable ==
    <<
      " ", "!", "\"", "#", "$", "%", "&", "'", "(", ")", "*", "+",
      ",", "-", ".", "/", "0", "1", "2", "3", "4", "5", "6", "7",
      "8", "9", ":", ";", "<", "=", ">", "?", "@", "A", "B", "C",
      "D", "E", "F", "G", "H", "I", "J", "K", "L", "M", "N", "O",
      "P", "Q", "R", "S", "T", "U", "V", "W", "X", "Y", "Z", "[",
      "\\", "]", "^", "_", "U+0060", "a", "b", "c", "d", "e", "f", "g",
      "h", "i", "j", "k", "l", "m", "n", "o", "p", "q", "r", "s",
      "t", "u", "v", "w", "x", "y", "z", "{", "|", "}", "~"
    >>

\* The code point of every character of the alphabet.
CodePoint ==
    [c \in {Printable[i] : i \in 1..Len(Printable)} |->
        31 + (CHOOSE i \in 1..Len(Printable) : Printable[i] = c)]
    @@ ("\t" :> 9) @@ ("\n" :> 10) @@ (VerticalTab :> 11) @@ ("\f" :> 12) @@ ("\r" :> 13)

\* ord(c)
Ord(c) == CodePoint[c]

\* chr(n) for a printable code point
Chr(n) == Printable[n - 31]

UpperCase ==
    {"A", "B", "C", "D", "E", "F", "G", "H", "I", "J", "K", "L", "M",
     "N", "O", "P", "Q", "R", "S", "T", "U", "V", "W", "X", "Y", "Z"}

\* str.lower() on one character: A-Z move to a-z, 32 code points up.
LowerChar(c) == IF c \in UpperCase THEN Chr(Ord(c) + 32) ELSE c

\* str.lower()
Lower(s) == [i \in 1..Len(s) |-> LowerChar(s[i])]

\* str.endswith(suffix)
EndsWith(s, suffix) ==
    /\ Len(s) >= Len(suffix)
    /\ SubSeq(s, Len(s) - Len(suffix) + 1, Len(s)) = suffix

\* Python's str < str: lexicographic by code point, a proper prefix is smaller.
RECURSIVE StrLess(_, _)
StrLess(a, b) ==
    IF b = <<>> THEN FALSE
    ELSE IF a = <<>> THEN TRUE
    ELSE IF Ord(Head(a)) # Ord(Head(b)) THEN Ord(Head(a)) < Ord(Head(b))
    ELSE StrLess(Tail(a), Tail(b))

\* Position of the first occurrence of character c in s, 0 when absent
\* (the test  ":" in ftype  and the cut point of  ftype.split(":", 1)).
FirstIndex(s, c) ==
    IF \E i \in 1..Len(s) : s[i] = c
    THEN CHOOSE i \in 1..Len(s) : s[i] = c /\ \A j \in 1..(i - 1) : s[j] # c
    ELSE 0

\* Position of the last occurrence of character c in s, 0 when absent.
LastIndex(s, c) ==
    IF \E i \in 1..Len(s) : s[i] = c
    THEN CHOOSE i \in 1..Len(s) : s[i] = c /\ \A j \in (i + 1)..Len(s) : s[j] # c
    ELSE 0

Digits == {"0", "1", "2", "3", "4", "5", "6", "7", "8", "9"}

RECURSIVE DigitsValue(_)
DigitsValue(s) ==
    IF s = <<>> THEN 0
    ELSE 10 * DigitsValue(SubSeq(s, 1, Len(s) - 1)) + (Ord(s[Len(s)]) - Ord("0"))

\* The ASCII characters int() skips before and after the literal.
Whitespace == {" ", "\t", "\n", VerticalTab, "\f", "\r"}

\* sys.int_max_str_digits: int() raises ValueError on more digits.
IntMaxStrDigits == 4300

RECURSIVE LStrip(_)
LStrip(s) == IF s # <<>> /\ Head(s) \in Whitespace THEN LStrip(Tail(s)) ELSE s

RECURSIVE RStrip(_)
RStrip(s) ==
    IF s # <<>> /\ s[Len(s)] \in Whitespace THEN RStrip(SubSeq(s, 1, Len(s) - 1)) ELSE s

\* The literal int() parses: surrounding whitespace removed.
IntLiteral(s) == LStrip(RStrip(s))

\* The literal without its optional sign.
IntMagnitude(s) ==
    LET t == IntLiteral(s)
    IN  IF t # <<>> /\ Head(t) \in {"+", "-"} THEN Tail(t) ELSE t

\* int(s) succeeds: after the surrounding whitespace and an optional sign,
\* decimal digits, with single underscores allowed between digits, at most
\* IntMaxStrDigits digits in all.
IntParses(s) ==
    LET body == IntMagnitude(s)
    IN  /\ body # <<>>
        /\ \A i \in 1..Len(body) : body[i] \in Digits \cup {"_"}
        /\ body[1] \in Digits
        /\ body[Len(body)] \in Digits
        /\ \A i \in 1..(Len(body) - 1) : ~(body[i] = "_" /\ body[i + 1] = "_")
        /\ Len(SelectSeq(body, LAMBDA c : c # "_")) <= IntMaxStrDigits

\* int(s) when it succeeds.
IntValue(s) ==
    LET magnitude == DigitsValue(SelectSeq(IntMagnitude(s), LAMBDA c : c # "_"))
    IN  IF Head(IntLiteral(s)) = "-" THEN 0 - magnitude ELSE magnitude

\* os.path.join(a, b) for a relative b on POSIX.
PathJoin(a, b) ==
    IF a = <<>> \/ a[Len(a)] = "/" THEN a \o b ELSE a \o <<"/">> \o b

\* os.path.dirname(p) on POSIX: everything before the last "/", with the
\* trailing slashes of that head removed unless the head is all slashes.
RECURSIVE RStripSlash(_)
RStripSlash(s) ==
    IF s # <<>> /\ s[Len(s)] = "/" THEN RStripSlash(SubSeq(s, 1, Len(s) - 1)) ELSE s

PathDirname(p) ==
    LET i    == LastIndex(p, "/")
        head == SubSeq(p, 1, i)
    IN  IF head # <<>> /\ \E k \in 1..Len(head) : head[k] # "/"
        THEN RStripSlash(head)
        ELSE head

(***************************************************************************)
(* String literals of the program and of the modelled file systems         *)
(***************************************************************************)

S_empty == << >>
S_r == <<"r">>
S_ra == <<"r", "/", "a">>
S_rb == <<"r", "/", "b">>
S_q == <<"q">>
S_x_shp == <<"x", ".", "s", "h", "p">>
S_Y_SHP == <<"Y", ".", "S", "H", "P">>
S_n_txt == <<"n", ".", "t", "x", "t">>
S_dot_shp == <<".", "s", "h", "p">>
S_name == <<"n", "a", "m", "e">>
S_pop == <<"p", "o", "p">>
S_w == <<"w">>
S_str10 == <<"s", "t", "r", ":", "1", "0">>
S_int == <<"i", "n", "t">>
S_str0 == <<"s", "t", "r", ":", "0">>
S_str_sp10 == <<"s", "t", "r", ":", " ", "1", "0", " ">>
S_int_1_0 == <<"i", "n", "t", ":", "1", "_", "0">>
S_str == <<"s", "t", "r">>
S_float2415 == <<"f", "l", "o", "a", "t", ":", "2", "4", ".", "1", "5">>
S_Point == <<"P", "o", "i", "n", "t">>
S_Polygon == <<"P", "o", "l", "y", "g", "o", "n">>
S_MultiPolygon == <<"M", "u", "l", "t", "i", "P", "o", "l", "y", "g", "o", "n">>
S_Unknown == <<"U", "n", "k", "n", "o", "w", "n">>
S_SinAtributos == <<"(", "S", "i", "n", " ", "a", "t", "r", "i", "b", "u", "t", "o", "s", ")">>
S_ab == <<"a", "b">>
S_abcdefg == <<"a", "b", "c", "d", "e", "f", "g">>
S_abcdefghijkl == <<"a", "b", "c", "d", "e", "f", "g", "h", "i", "j", "k", "l">>
S_err == <<"b", "a", "d", " ", "f", "i", "l", "e">>
S_object == <<"o", "b", "j", "e", "c", "t">>
S_string == <<"s", "t", "r", "i", "n", "g">>
S_int64 == <<"i", "n", "t", "6", "4">>
S_float64 == <<"f", "l", "o", "a", "t", "6", "4">>

(***************************************************************************)
(* Values read from the libraries                                          *)
(*                                                                         *)
(* A cell of a pandas Series is [isna, v]; a fiona schema is a dict whose  *)
(* keys "properties" and "geometry" may be absent; props is an ordered     *)
(* dict, a sequence of <<fname, ftype>> pairs with distinct names; a       *)
(* GeoDataFrame is [geom_type, columns]: the per-row geometry type and the *)
(* attribute columns, each [dtype, vals] with one cell per row.            *)
(***************************************************************************)

NA == [isna |-> TRUE, v |-> << >>]
Cell(s) == [isna |-> FALSE, v |-> s]
Missing == [present |-> FALSE, v |-> << >>]
Key(x) == [present |-> TRUE, v |-> x]

\* dict.get(key, default)
DictGet(entry, default) == IF entry.present THEN entry.v ELSE default

\* series.dropna()
DropNa(vals) == SelectSeq(vals, LAMBDA c : ~c.isna)

\* The successful conversion at line 95, before its use at lines 109-110.
ParsedLength(partes1) == IF IntParses(partes1) THEN IntValue(partes1) ELSE 0

\* Variant: the length of the first string instead of the maximum.
FirstLenOf(vals) == Len(vals[1].v)

\* series.map(len).max() on a non-empty series of strings
MaxLenOf(vals) ==
    CHOOSE m \in {Len(vals[i].v) : i \in 1..Len(vals)} :
        \A i \in 1..Len(vals) : Len(vals[i].v) <= m

\* pd.api.types.is_object_dtype(serie) or pd.api.types.is_string_dtype(serie)
\* is_object_dtype holds of dtype object; is_string_dtype of pandas' string
\* dtypes, named "string" and "str".
IsObjectDtype(dtype) == dtype = S_object
IsStringDtype(dtype) == dtype \in {S_string, S_str}
IsTextDtype(dtype) == IsObjectDtype(dtype) \/ IsStringDtype(dtype)

\* gdf.empty : no rows
GdfEmpty(gdf) == Len(gdf.geom_type) = 0

\* Number of rows of a series holding value x.
CountOf(vals, x) == Cardinality({i \in 1..Len(vals) : vals[i] = x})

\* Series.mode(): the most frequent non-null values, sorted ascending.
\* ModeRaises is  mode()[0]  on the empty result (KeyError).
ModeValues(vals) ==
    LET nn == DropNa(vals)
    IN  {nn[i].v : i \in {k \in 1..Len(nn) :
                            \A j \in 1..Len(nn) : CountOf(nn, nn[j]) <= CountOf(nn, nn[k])}}
ModeRaises(vals) == ModeValues(vals) = {}
ModeFirst(vals) ==
    CHOOSE m \in ModeValues(vals) : \A o \in ModeValues(vals) : o = m \/ StrLess(m, o)

(***************************************************************************)
(* process_shapefiles: what one .shp file contributes                      *)
(*                                                                         *)
(* A file on disk is [fiona, err, schema, gpd, gdf]: whether fiona.open    *)
(* raises (and with which message), the schema it yields, whether          *)
(* gpd.read_file raises, and the GeoDataFrame it yields.                   *)
(***************************************************************************)

\* not archivo.lower().endswith(".shp")
IsShapefileName(archivo) == EndsWith(Lower(archivo), S_dot_shp)

\* carpeta_base = os.path.dirname(os.path.join(raiz, archivo))
CarpetaBase(raiz, archivo) == PathDirname(PathJoin(raiz, archivo))

\* f"⚠️ Error fiona en {archivo}: {e}"
S_log_prefix == <<"U+26A0", "U+FE0F", " ", "E", "r", "r", "o", "r", " ",
                  "f", "i", "o", "n", "a", " ", "e", "n", " ">>
\* Variant: the message leaves the file name out.
FionaLogNoName(archivo, e) == S_log_prefix \o <<":", " ">> \o e

FionaLog(archivo, e) == S_log_prefix \o archivo \o <<":", " ">> \o e

\* Attempt 1: props and tipo_geom after a successful fiona.open.
SchemaProps(file) == DictGet(file.schema.properties, << >>)
SchemaGeometry(file) == DictGet(file.schema.geometry, S_Unknown)

\* Attempt 2: gdf is None when gpd.read_file raised; it stays assigned when
\* the later  gdf.geom_type.mode()[0]  raises inside the same try block.
GdfIsNone(file) == file.gpd = "raise"

\* Variant: a failed read resets tipo_geom to its initial "Unknown".
TipoGeomResetOnFailure(file) ==
    IF GdfIsNone(file) THEN S_Unknown
    ELSE IF GdfEmpty(file.gdf) \/ ModeRaises(file.gdf.geom_type) THEN SchemaGeometry(file)
    ELSE ModeFirst(file.gdf.geom_type)

\* tipo_geom after attempt 2.
TipoGeom(file) ==
    IF GdfIsNone(file) \/ GdfEmpty(file.gdf) \/ ModeRaises(file.gdf.geom_type)
    THEN SchemaGeometry(file)
    ELSE ModeFirst(file.gdf.geom_type)

\* Variant: the compound type string is not split.
FieldTipoUnsplit(ftype) == ftype

\* tipo: the part before the first ":" of a compound type, else str(ftype).
FieldTipo(ftype) ==
    LET i == FirstIndex(ftype, ":")
    IN  IF i > 0 THEN SubSeq(ftype, 1, i - 1) ELSE ftype

\* longitud after parsing the type string alone.
DeclaredLongitud(ftype) ==
    LET i == FirstIndex(ftype, ":")
    IN  IF i > 0 THEN ParsedLength(SubSeq(ftype, i + 1, Len(ftype))) ELSE 0

\* The observed maximum is available: gdf was read, has the column, the
\* column is text, and a non-null value is left.
HasObservedLength(file, fname) ==
    /\ ~GdfIsNone(file)
    /\ fname \in DOMAIN file.gdf.columns
    /\ IsTextDtype(file.gdf.columns[fname].dtype)
    /\ DropNa(file.gdf.columns[fname].vals) # << >>

\* longitud of the record.
FieldLongitud(file, fname, ftype) ==
    IF HasObservedLength(file, fname) /\ DeclaredLongitud(ftype) = 0
    THEN MaxLenOf(DropNa(file.gdf.columns[fname].vals))
    ELSE DeclaredLongitud(ftype)

\* One row of filas.
Fila(carpeta, archivo, geom, campo, tipo, longitud) ==
    [CarpetaBase |-> carpeta, NombreShapefile |-> archivo, TipoGeometria |-> geom,
     NombreCampo |-> campo, TipoDato |-> tipo, Longitud |-> longitud]

\* The placeholder row of a shapefile without fields.
PlaceholderFila(raiz, archivo, file) ==
    Fila(CarpetaBase(raiz, archivo), archivo, TipoGeom(file), S_SinAtributos, << >>, 0)

\* The row of one declared field.
FieldFila(raiz, archivo, file, fname, ftype) ==
    Fila(CarpetaBase(raiz, archivo), archivo, TipoGeom(file), fname,
         FieldTipo(ftype), FieldLongitud(file, fname, ftype))

\* Variant: a shapefile without fields appends nothing.
FileFilasNoPlaceholder(raiz, archivo, file) ==
    [i \in 1..Len(SchemaProps(file)) |->
        FieldFila(raiz, archivo, file, SchemaProps(file)[i][1], SchemaProps(file)[i][2])]

\* The rows a file whose schema was read appends to filas, in props order.
FileFilas(raiz, archivo, file) ==
    LET props == SchemaProps(file)
    IN  IF props = << >>
        THEN << PlaceholderFila(raiz, archivo, file) >>
        ELSE [i \in 1..Len(props) |->
                FieldFila(raiz, archivo, file, props[i][1], props[i][2])]

(***************************************************************************)
(* process_shapefiles: the report builder                                  *)
(***************************************************************************)

\* Variant: the folder is left out of the sort key.
SortKeyLessNoFolder(a, b) ==
    \/ StrLess(a.NombreShapefile, b.NombreShapefile)
    \/ /\ a.NombreShapefile = b.NombreShapefile
       /\ StrLess(a.NombreCampo, b.NombreCampo)

\* Row a sorts strictly before row b by
\* ["Carpeta Base", "Nombre Shapefile", "Nombre Campo"].
SortKeyLess(a, b) ==
    \/ StrLess(a.CarpetaBase, b.CarpetaBase)
    \/ /\ a.CarpetaBase = b.CarpetaBase
       /\ \/ StrLess(a.NombreShapefile, b.NombreShapefile)
          \/ /\ a.NombreShapefile = b.NombreShapefile
             /\ StrLess(a.NombreCampo, b.NombreCampo)

\* Stable insertion of row r into a sorted table: after every row that does
\* not sort after it.
InsertRow(sorted, r) ==
    LET k == Cardinality({i \in 1..Len(sorted) : ~SortKeyLess(r, sorted[i])})
    IN  SubSeq(sorted, 1, k) \o <<r>> \o SubSeq(sorted, k + 1, Len(sorted))

\* df.sort_values(by=[...]).reset_index(drop=True): a stable sort.
RECURSIVE SortValues(_)
SortValues(rows) ==
    IF rows = << >> THEN << >>
    ELSE InsertRow(SortValues(SubSeq(rows, 1, Len(rows) - 1)), rows[Len(rows)])

\* Series.duplicated() (keep="first") at position i.
FolderDuplicated(df, i) == \E j \in 1..(i - 1) : df[j].CarpetaBase = df[i].CarpetaBase
NameDuplicated(df, i) == \E j \in 1..(i - 1) : df[j].NombreShapefile = df[i].NombreShapefile

\* df_export: the copy whose duplicated folder and file cells are masked.
DfExport(df) ==
    [i \in 1..Len(df) |->
        [df[i] EXCEPT !.CarpetaBase = IF FolderDuplicated(df, i) THEN << >> ELSE @,
                      !.NombreShapefile = IF NameDuplicated(df, i) THEN << >> ELSE @]]

NumColumns == 6
ColumnWidth == 25

\* The loop of lines 160-172 from sheet row `row` on, prev_folder being
\* `prev` (prev_set is FALSE while prev_folder is None): the sheet rows
\* whose cells get the bold font and the fill.  Sheet row 1 is the header,
\* so df_export[i] is sheet row i + 1.
RECURSIVE HighlightFrom(_, _, _, _)
HighlightFrom(export, row, prev_set, prev) ==
    IF row > Len(export) + 1 THEN {}
    ELSE LET folder_cell_value == export[row - 1].CarpetaBase
         IN  IF folder_cell_value # << >> /\ (~prev_set \/ folder_cell_value # prev)
             THEN {row} \cup HighlightFrom(export, row + 1, TRUE, folder_cell_value)
             ELSE HighlightFrom(export, row + 1, prev_set, prev)

\* Variant: the column loop stops one column early.
StyledCellsShort(export) ==
    {<<row, col>> : row \in HighlightFrom(export, 2, FALSE, << >>),
                    col \in 1..(NumColumns - 1)}

\* The cells <<row, col>> styled by the loop.
StyledCells(export) ==
    {<<row, col>> : row \in HighlightFrom(export, 2, FALSE, << >>), col \in 1..NumColumns}

\* The workbook in the BytesIO: the sheet "Campos".
NoExcel == [isnone |-> TRUE, rows |-> << >>, styled |-> {}, widths |-> << >>]
Workbook(df) ==
    [isnone |-> FALSE, rows |-> DfExport(df), styled |-> StyledCells(DfExport(df)),
     widths |-> [c \in 1..NumColumns |-> ColumnWidth]]

(***************************************************************************)
(* The file systems the scan is run on                                     *)
(***************************************************************************)

MaxFiles == 3

Dirs == {S_r, S_ra, S_rb}
FileNames == {S_x_shp, S_Y_SHP, S_n_txt}
Slots == Dirs \X FileNames

Schema(props, geom) == [properties |-> props, geometry |-> geom]
Column(dtype, vals) == [dtype |-> dtype, vals |-> vals]
Gdf(geom_type, columns) == [geom_type |-> geom_type, columns |-> columns]
NoGdf == Gdf(<< >>, << >>)
File(fiona, err, schema, gpd, gdf) ==
    [fiona |-> fiona, err |-> err, schema |-> schema, gpd |-> gpd, gdf |-> gdf]

\* Schemas fiona may yield.
SchemaNoFields == Schema(Key(<< >>), Key(S_Point))
SchemaNoKeys == Schema(Missing, Missing)
SchemaNamePop == Schema(Key(<< <<S_name, S_str10>>, <<S_pop, S_int>> >>), Key(S_Polygon))
SchemaZeroLen == Schema(Key(<< <<S_w, S_float2415>>, <<S_name, S_str0>> >>), Key(S_Polygon))
SchemaBare == Schema(Key(<< <<S_name, S_str>> >>), Key(S_Point))
SchemaSpaced == Schema(Key(<< <<S_name, S_str_sp10>>, <<S_pop, S_int_1_0>> >>), Key(S_Point))
Schemas == {SchemaNoFields, SchemaNoKeys, SchemaNamePop, SchemaZeroLen, SchemaBare,
            SchemaSpaced}

\* GeoDataFrames geopandas may yield.
GdfNoRows ==
    Gdf(<< >>, (S_name :> Column(S_object, << >>)) @@ (S_pop :> Column(S_int64, << >>)))
GdfThreeRows ==
    Gdf(<<Cell(S_Polygon), Cell(S_MultiPolygon), Cell(S_MultiPolygon)>>,
        (S_name :> Column(S_object, <<Cell(S_ab), NA, Cell(S_abcdefg)>>))
        @@ (S_pop :> Column(S_int64, <<Cell(<<"1">>), Cell(<<"2">>), Cell(<<"3">>)>>))
        @@ (S_w :> Column(S_float64, <<Cell(<<"1">>), Cell(<<"2">>), Cell(<<"3">>)>>)))
GdfLongNames ==
    Gdf(<<Cell(S_Point), Cell(S_Polygon)>>,
        (S_name :> Column(S_object, <<Cell(S_abcdefghijkl), Cell(S_ab)>>))
        @@ (S_pop :> Column(S_object, <<Cell(S_ab), NA>>)))
GdfNullGeometry ==
    Gdf(<<NA, NA>>, (S_name :> Column(S_object, <<Cell(S_abcdefg), Cell(S_ab)>>)))
GdfNullNames ==
    Gdf(<<Cell(S_Point)>>, (S_name :> Column(S_object, <<NA>>)))
GdfStringDtype ==
    Gdf(<<Cell(S_Point), Cell(S_Point)>>,
        (S_name :> Column(S_string, <<NA, Cell(S_abcdefg)>>))
        @@ (S_pop :> Column(S_str, <<Cell(S_ab), Cell(S_ab)>>)))
Gdfs == {GdfNoRows, GdfThreeRows, GdfLongNames, GdfNullGeometry, GdfNullNames,
         GdfStringDtype}

\* A file that is not a shapefile, a .shp file fiona cannot open, and the
\* readable shapefiles.
PlainFile == File("none", << >>, SchemaNoKeys, "none", NoGdf)
BrokenShp == File("raise", S_err, SchemaNoKeys, "raise", NoGdf)
ReadableShps ==
    {File("ok", << >>, sc, "raise", NoGdf) : sc \in Schemas}
    \cup {File("ok", << >>, sc, "ok", g) : sc \in Schemas, g \in Gdfs}
CoreShps ==
    {BrokenShp,
     File("ok", << >>, SchemaNamePop, "ok", GdfThreeRows),
     File("ok", << >>, SchemaZeroLen, "ok", GdfThreeRows),
     File("ok", << >>, SchemaZeroLen, "raise", NoGdf)}

\* The contents a file at a slot may have.
Contents(slot, shps) == IF IsShapefileName(slot[2]) THEN shps ELSE {PlainFile}

\* Directory trees: Dirs always exist; at most MaxFiles files drawn from
\* CoreShps, or one file drawn from every readable or broken shapefile.
TreesOn(S, shps) ==
    {t \in [S -> shps \cup {PlainFile}] : \A slot \in S : t[slot] \in Contents(slot, shps)}
SmallSlotSets == {S \in SUBSET Slots : Cardinality(S) <= MaxFiles}
Trees ==
    UNION {TreesOn(S, CoreShps) : S \in SmallSlotSets}
    \cup UNION {TreesOn({slot}, ReadableShps) : slot \in Slots}

\* The paths typed into the text input: empty, nonexistent, the root.
InputFolders == {S_empty, S_q, S_r}

(***************************************************************************)
(* State                                                                   *)
(***************************************************************************)

VARIABLES
    tree,             \* the file system: slot <<dir, name>> |-> file
    input_folder,     \* the text typed into st.text_input
    pc,               \* position in the script run started by the button
    called,           \* process_shapefiles was called
    stack,            \* os.walk: directories still to be yielded, next first
    raiz,             \* os.walk: the directory being listed
    archivos,         \* os.walk: files of raiz not yet visited
    filas,            \* the record list
    logs,             \* the warning list
    total_files,
    processed_count,
    progress,         \* the progress bar, a fraction <<num, den>>
    status_text,
    excel_data,       \* first value returned by process_shapefiles
    df_result,        \* second value returned by process_shapefiles
    outcome,          \* "none", "error" (st.error), "warning", "success"
    download,         \* the data behind the download button, if offered
    preview,          \* the table shown by st.dataframe
    shown_logs,       \* the warnings written into the expander
    exception         \* the unhandled exception that ended the run

vars == <<tree, input_folder, pc, called, stack, raiz, archivos, filas, logs,
          total_files, processed_count, progress, status_text, excel_data,
          df_result, outcome, download, preview, shown_logs, exception>>

scan_vars == <<stack, raiz, archivos, filas, logs, total_files, processed_count,
               progress, status_text>>
ui_vars == <<outcome, download, preview, shown_logs>>

S_Procesando == <<"P", "r", "o", "c", "e", "s", "a", "n", "d", "o", ":", " ">>
S_dots == <<".", ".", ".">>
S_Generando == <<"G", "e", "n", "e", "r", "a", "n", "d", "o", " ",
                 "E", "x", "c", "e", "l", ".", ".", ".">>

\* os.path.exists(path)
PathExists(path) ==
    \/ path \in Dirs
    \/ \E slot \in DOMAIN tree : PathJoin(slot[1], slot[2]) = path

\* The sub-directories and the files os.walk lists for directory d.
SubDirs(d) == {e \in Dirs : e # d /\ PathDirname(e) = d}
FilesIn(d) == {slot[2] : slot \in {sl \in DOMAIN tree : sl[1] = d}}

\* The directories os.walk(top) yields.
RECURSIVE WalkedDirs(_)
WalkedDirs(top) ==
    IF top \in Dirs THEN {top} \cup UNION {WalkedDirs(e) : e \in SubDirs(top)} ELSE {}

\* sum([len(files) for r, d, files in os.walk(root_folder)])
TotalFiles(top) == Cardinality({slot \in DOMAIN tree : slot[1] \in WalkedDirs(top)})

\* The orders in which a listing may return a set of entries.
Orders(S) ==
    {f \in [1..Cardinality(S) -> S] : \A i, j \in 1..Cardinality(S) : f[i] = f[j] => i = j}

\* progress_bar.progress(min(processed_count / max(total_files, 1), 1.0))
Fraction(count, total) ==
    LET den == IF total > 1 THEN total ELSE 1
    IN  <<IF count > den THEN den ELSE count, den>>

Init ==
    /\ tree \in Trees
    /\ input_folder \in InputFolders
    /\ pc = "idle"
    /\ called = FALSE
    /\ stack = << >>
    /\ raiz = << >>
    /\ archivos = {}
    /\ filas = << >>
    /\ logs = << >>
    /\ total_files = 0
    /\ processed_count = 0
    /\ progress = <<0, 1>>
    /\ status_text = << >>
    /\ excel_data = NoExcel
    /\ df_result = << >>
    /\ outcome = "none"
    /\ download = NoExcel
    /\ preview = << >>
    /\ shown_logs = << >>
    /\ exception = "none"

(***************************************************************************)
(* Operations                                                              *)
(***************************************************************************)

\* Lines 194-196: the button was pressed with an empty or nonexistent path.
RejectPath ==
    /\ pc = "idle"
    /\ input_folder = << >> \/ ~PathExists(input_folder)
    /\ outcome' = "error"
    /\ pc' = "cleanup"
    /\ UNCHANGED <<tree, input_folder, called, scan_vars, excel_data, df_result,
                   download, preview, shown_logs, exception>>

\* Lines 197-199 and 24-33: process_shapefiles is entered.
StartScan ==
    /\ pc = "idle"
    /\ input_folder # << >> /\ PathExists(input_folder)
    /\ called' = TRUE
    /\ filas' = << >>
    /\ logs' = << >>
    /\ status_text' = << >>
    /\ progress' = <<0, 1>>
    /\ total_files' = TotalFiles(input_folder)
    /\ processed_count' = 0
    /\ stack' = IF input_folder \in Dirs THEN <<input_folder>> ELSE << >>
    /\ raiz' = << >>
    /\ archivos' = {}
    /\ pc' = "scan"
    /\ UNCHANGED <<tree, input_folder, excel_data, df_result, ui_vars, exception>>

\* Line 35: os.walk yields the next directory, top-down and depth-first; its
\* sub-directories are walked next, in the order the listing returned them.
WalkDir ==
    /\ pc = "scan"
    /\ archivos = {}
    /\ stack # << >>
    /\ \E order \in Orders(SubDirs(Head(stack))) :
          stack' = order \o Tail(stack)
    /\ raiz' = Head(stack)
    /\ archivos' = FilesIn(Head(stack))
    /\ UNCHANGED <<tree, input_folder, pc, called, filas, logs, total_files,
                   processed_count, progress, status_text, excel_data, df_result,
                   ui_vars, exception>>

\* Lines 36-119: one iteration of the inner loop, on any file the listing
\* has not returned yet.
VisitFile ==
    /\ pc = "scan"
    /\ \E archivo \in archivos :
          LET file == tree[<<raiz, archivo>>]
          IN  /\ archivos' = archivos \ {archivo}
              /\ processed_count' = processed_count + 1
              /\ progress' =
                    IF (processed_count + 1) % 10 = 0 \/ processed_count + 1 = total_files
                    THEN Fraction(processed_count + 1, total_files)
                    ELSE progress
              /\ IF ~IsShapefileName(archivo)
                 THEN UNCHANGED <<filas, logs, status_text>>
                 ELSE /\ status_text' = S_Procesando \o archivo \o S_dots
                      /\ IF file.fiona = "raise"
                         THEN /\ logs' = Append(logs, FionaLog(archivo, file.err))
                              /\ filas' = filas
                         ELSE /\ filas' = filas \o FileFilas(raiz, archivo, file)
                              /\ logs' = logs
    /\ UNCHANGED <<tree, input_folder, pc, called, stack, raiz, total_files,
                   excel_data, df_result, ui_vars, exception>>

\* Variant: the early return for an empty record list is missing.
BuildReportNoEarlyReturn ==
    /\ pc = "scan"
    /\ archivos = {}
    /\ stack = << >>
    /\ progress' = <<1, 1>>
    /\ excel_data' = Workbook(SortValues(filas))
    /\ df_result' = SortValues(filas)
    /\ status_text' = << >>
    /\ pc' = "result"
    /\ UNCHANGED <<tree, input_folder, called, stack, raiz, archivos, filas, logs,
                   total_files, processed_count, ui_vars, exception>>

\* Lines 121-176: the walk is over; the table and the workbook are built and
\* process_shapefiles returns.
BuildReport ==
    /\ pc = "scan"
    /\ archivos = {}
    /\ stack = << >>
    /\ progress' = <<1, 1>>
    /\ IF filas = << >>
       THEN /\ excel_data' = NoExcel
            /\ df_result' = << >>
            /\ status_text' = S_Generando
       ELSE /\ excel_data' = Workbook(SortValues(filas))
            /\ df_result' = SortValues(filas)
            /\ status_text' = << >>
    /\ pc' = "result"
    /\ UNCHANGED <<tree, input_folder, called, stack, raiz, archivos, filas, logs,
                   total_files, processed_count, ui_vars, exception>>

\* Lines 201-231: the outcome of the scan is shown.
ShowResult ==
    /\ pc = "result"
    /\ IF excel_data.isnone \/ df_result = << >>
       THEN /\ outcome' = "warning"
            /\ download' = NoExcel
            /\ preview' = << >>
       ELSE /\ outcome' = "success"
            /\ download' = excel_data
            /\ preview' = df_result
    /\ shown_logs' = logs
    /\ pc' = "cleanup"
    /\ UNCHANGED <<tree, input_folder, called, scan_vars, excel_data, df_result,
                   exception>>

\* Lines 233-235, inside  if process_btn:  the name temp_dir is read and is
\* bound nowhere in the module, so the read raises NameError.
Cleanup ==
    /\ pc = "cleanup"
    /\ exception' = "NameError"
    /\ pc' = "done"
    /\ UNCHANGED <<tree, input_folder, called, scan_vars, excel_data, df_result,
                   ui_vars>>

Next == RejectPath \/ StartScan \/ WalkDir \/ VisitFile \/ BuildReport
        \/ ShowResult \/ Cleanup

Spec == Init /\ [][Next]_vars

(***************************************************************************)
(* Vocabulary of the properties                                            *)
(***************************************************************************)

\* process_shapefiles has returned.
ScanReturned == called /\ pc \in {"result", "cleanup", "done"}

\* The script run has shown the outcome of the scan.
ResultShown == called /\ pc \in {"cleanup", "done"}

\* A name with the extension .shp in any letter case.
HasShpExtension(name) ==
    /\ Len(name) >= 4
    /\ name[Len(name) - 3] = "."
    /\ name[Len(name) - 2] \in {"s", "S"}
    /\ name[Len(name) - 1] \in {"h", "H"}
    /\ name[Len(name)] \in {"p", "P"}

ShpSlots == {slot \in DOMAIN tree : HasShpExtension(slot[2])}
BrokenSlots == {slot \in ShpSlots : tree[slot].fiona = "raise"}
ReadableSlots == {slot \in ShpSlots : tree[slot].fiona = "ok"}

\* The fields a readable shapefile declares, in schema order.
DeclaredFields(slot) ==
    IF tree[slot].schema.properties.present THEN tree[slot].schema.properties.v ELSE << >>

\* The rows of a table that belong to the file at a slot, in table order.
RowsOf(rows, slot) ==
    SelectSeq(rows, LAMBDA row : row.CarpetaBase = slot[1] /\ row.NombreShapefile = slot[2])

\* sub occurs in s.
Contains(s, sub) ==
    \E i \in 1..(Len(s) - Len(sub) + 1) : SubSeq(s, i, i + Len(sub) - 1) = sub

\* What each type string of the modelled schemas declares: the type name and
\* the integer length as Python reads it ("str: 10 " and "int:1_0" declare
\* 10; 0 when it declares none; the width.precision suffix of float:24.15
\* is not an integer length).
DeclaredType(ftype) ==
    CASE ftype = S_str10 -> S_str
      [] ftype = S_str0 -> S_str
      [] ftype = S_str_sp10 -> S_str
      [] ftype = S_int_1_0 -> S_int
      [] ftype = S_str -> S_str
      [] ftype = S_int -> S_int
      [] ftype = S_float2415 -> <<"f", "l", "o", "a", "t">>
DeclaredLength(ftype) ==
    CASE ftype = S_str10 -> 10
      [] ftype = S_str_sp10 -> 10
      [] ftype = S_int_1_0 -> 10
      [] ftype = S_str0 -> 0
      [] ftype = S_str -> 0
      [] ftype = S_int -> 0
      [] ftype = S_float2415 -> 0

\* The non-null string values the secondary reader supplied for a field.
ObservedStrings(slot, fname) ==
    LET file == tree[slot]
    IN  IF file.gpd = "ok" /\ fname \in DOMAIN file.gdf.columns
           /\ file.gdf.columns[fname].dtype \in {S_object, S_string, S_str}
        THEN {file.gdf.columns[fname].vals[i].v :
                i \in {k \in 1..Len(file.gdf.columns[fname].vals) :
                         ~file.gdf.columns[fname].vals[k].isna}}
        ELSE {}

\* n is the length of a longest string of the non-empty set S.
IsMaxLength(n, S) == (\E v \in S : Len(v) = n) /\ (\A v \in S : Len(v) <= n)

\* Row a does not sort after row b by (folder, filename, field name).
InOrder(a, b) ==
    IF a.CarpetaBase # b.CarpetaBase THEN StrLess(a.CarpetaBase, b.CarpetaBase)
    ELSE IF a.NombreShapefile # b.NombreShapefile
         THEN StrLess(a.NombreShapefile, b.NombreShapefile)
    ELSE a.NombreCampo = b.NombreCampo \/ StrLess(a.NombreCampo, b.NombreCampo)

\* The rows the readable shapefiles of the tree yield, as a set, and the one
\* ascending arrangement of them: neither refers to a traversal order.
Elements(seq) == {seq[i] : i \in 1..Len(seq)}
RowSet == UNION {Elements(FileFilas(slot[1], slot[2], tree[slot])) : slot \in ReadableSlots}
Ascending(R) ==
    [i \in 1..Cardinality(R) |-> CHOOSE r \in R : Cardinality({q \in R : InOrder(q, r)}) = i]
AscendingTable == Ascending(RowSet)

(***************************************************************************)
(* Properties                                                              *)
(***************************************************************************)

\* C1: once the scan has returned, every .shp file whose fiona.open raised
\* has no row in the record list and the warning list holds exactly one
\* string per such file, containing its name; every readable shapefile has
\* exactly the rows it yields on its own, and no other row exists, so the
\* other files' records and warnings do not depend on the failing files.
C1_FailedFileSkipped ==
    ScanReturned =>
        /\ \A slot \in BrokenSlots : RowsOf(filas, slot) = << >>
        /\ Len(logs) = Cardinality(BrokenSlots)
        /\ \A name \in FileNames :
              Cardinality({i \in 1..Len(logs) : Contains(logs[i], name)})
                = Cardinality({slot \in BrokenSlots : slot[2] = name})
        /\ \A slot \in ReadableSlots :
              RowsOf(filas, slot) = FileFilas(slot[1], slot[2], tree[slot])
        /\ \A i \in 1..Len(filas) :
              \E slot \in ReadableSlots :
                 filas[i].CarpetaBase = slot[1] /\ filas[i].NombreShapefile = slot[2]

\* A failing file in the root was visited before a readable shapefile of a
\* sub-directory, whose rows are present.
C1_Witness ==
    /\ ScanReturned
    /\ \E b \in BrokenSlots, g \in ReadableSlots :
          /\ b[1] = S_r
          /\ g[1] # S_r
          /\ RowsOf(filas, g) # << >>
          /\ \E i \in 1..Len(logs) : Contains(logs[i], b[2])

\* C2 as stated: a readable shapefile with n >= 1 declared fields has
\* exactly n rows, one per field, each with the declared type and the
\* declared length.
C2_DeclaredVerbatim ==
    ScanReturned =>
        \A slot \in ReadableSlots :
           LET fields == DeclaredFields(slot)
               rows   == RowsOf(filas, slot)
           IN  fields # << >> =>
                 /\ Len(rows) = Len(fields)
                 /\ \A i \in 1..Len(fields) :
                       /\ rows[i].NombreCampo = fields[i][1]
                       /\ rows[i].TipoDato = DeclaredType(fields[i][2])
                       /\ rows[i].Longitud = DeclaredLength(fields[i][2])

\* C2 amended: exactly n rows, one per declared field, each with the
\* declared type; the length is the declared integer length when that is
\* non-zero; otherwise it is the longest non-null string observed for the
\* field when there is one, and 0 when there is none.
C2_DeclaredUnlessObserved ==
    ScanReturned =>
        \A slot \in ReadableSlots :
           LET fields == DeclaredFields(slot)
               rows   == RowsOf(filas, slot)
           IN  fields # << >> =>
                 /\ Len(rows) = Len(fields)
                 /\ \A i \in 1..Len(fields) :
                       LET seen == ObservedStrings(slot, fields[i][1])
                           decl == DeclaredLength(fields[i][2])
                       IN  /\ rows[i].NombreCampo = fields[i][1]
                           /\ rows[i].TipoDato = DeclaredType(fields[i][2])
                           /\ decl # 0 => rows[i].Longitud = decl
                           /\ decl = 0 /\ seen = {} => rows[i].Longitud = 0
                           /\ decl = 0 /\ seen # {} => IsMaxLength(rows[i].Longitud, seen)

\* The shapefile {name: str:10, pop: int} was scanned: two rows, name with
\* type str and length 10, pop with type int.
C2_Witness ==
    /\ ScanReturned
    /\ \E slot \in ReadableSlots :
          /\ DeclaredFields(slot) = << <<S_name, S_str10>>, <<S_pop, S_int>> >>
          /\ Len(RowsOf(filas, slot)) = 2
          /\ RowsOf(filas, slot)[1].TipoDato = S_str
          /\ RowsOf(filas, slot)[1].Longitud = 10
          /\ RowsOf(filas, slot)[2].TipoDato = S_int

\* C3: a field with no explicit length (declared 0 or none) for which the
\* secondary reader supplied at least one non-null string gets the maximum
\* observed string length; a field with a non-zero declared length keeps it.
C3_LengthResolution ==
    ScanReturned =>
        \A slot \in ReadableSlots :
           LET fields == DeclaredFields(slot)
               rows   == RowsOf(filas, slot)
           IN  \A i \in 1..Len(fields) :
                  LET seen == ObservedStrings(slot, fields[i][1])
                      decl == DeclaredLength(fields[i][2])
                  IN  /\ Len(rows) >= i
                      /\ decl = 0 /\ seen # {} => IsMaxLength(rows[i].Longitud, seen)
                      /\ decl # 0 => rows[i].Longitud = decl

\* One scan resolved a str:0 field whose longest value has 7 characters to
\* 7, and kept 10 for a str:10 field whose values were observed.
C3_Witness ==
    /\ ScanReturned
    /\ \E slot \in ReadableSlots :
          \E i \in 1..Len(DeclaredFields(slot)) :
             /\ DeclaredFields(slot)[i] = <<S_name, S_str0>>
             /\ S_abcdefg \in ObservedStrings(slot, S_name)
             /\ RowsOf(filas, slot)[i].Longitud = 7
    /\ \E slot \in ReadableSlots :
          \E i \in 1..Len(DeclaredFields(slot)) :
             /\ DeclaredFields(slot)[i] = <<S_name, S_str10>>
             /\ ObservedStrings(slot, S_name) # {}
             /\ RowsOf(filas, slot)[i].Longitud = 10

\* C4: a readable shapefile that declares no attribute field has exactly
\* one row: field name "(Sin atributos)", empty data type, length 0.
C4_Placeholder ==
    ScanReturned =>
        \A slot \in ReadableSlots :
           DeclaredFields(slot) = << >> =>
              /\ Len(RowsOf(filas, slot)) = 1
              /\ RowsOf(filas, slot)[1].NombreCampo = S_SinAtributos
              /\ RowsOf(filas, slot)[1].TipoDato = << >>
              /\ RowsOf(filas, slot)[1].Longitud = 0

\* A shapefile without fields was scanned and the placeholder row returned.
C4_Witness ==
    /\ ScanReturned
    /\ \E slot \in ReadableSlots : DeclaredFields(slot) = << >>
    /\ Len(df_result) = 1
    /\ df_result[1].NombreCampo = S_SinAtributos

\* C5: the returned table is ascending by (folder, filename, field name)
\* and is the one ascending arrangement of the tree's rows, whatever order
\* the walk visited directories and files in.
C5_SortedAnyTraversal ==
    ScanReturned =>
        /\ \A i, j \in 1..Len(df_result) : i < j => InOrder(df_result[i], df_result[j])
        /\ df_result = AscendingTable

\* The walk produced the rows of two folders in an order other than the
\* sorted one.
C5_Witness ==
    /\ ScanReturned
    /\ Len(df_result) >= 3
    /\ filas # df_result
    /\ \E i, j \in 1..Len(df_result) : df_result[i].CarpetaBase # df_result[j].CarpetaBase

\* C6: the workbook exists exactly when the record list is non-empty; a
\* tree without .shp files gives no record, no workbook and an empty table,
\* and the run then shows the warning and offers no download; a download is
\* offered exactly when the workbook exists.
C6_ArtifactIffRecords ==
    /\ ScanReturned =>
          /\ excel_data.isnone <=> filas = << >>
          /\ ShpSlots = {} => filas = << >> /\ excel_data.isnone /\ df_result = << >>
    /\ ResultShown =>
          /\ download.isnone <=> filas = << >>
          /\ ShpSlots = {} => outcome = "warning" /\ download.isnone

\* A tree that holds files, none of them a .shp, was scanned to the end.
C6_Witness ==
    /\ ResultShown
    /\ DOMAIN tree # {}
    /\ ShpSlots = {}
    /\ outcome = "warning"
    /\ download.isnone

\* C7 as stated: a run ends without an unhandled error; an empty or
\* nonexistent path ends in the rejection without process_shapefiles being
\* called, an existing path in success or in "no shapefiles found".
C7_NoUnhandledError ==
    pc = "done" =>
        IF input_folder = << >> \/ ~PathExists(input_folder)
        THEN ~called /\ outcome = "error"
        ELSE called /\ outcome \in {"success", "warning"} /\ exception = "none"

\* C8: a shapefile whose schema was read and whose gpd.read_file raised adds
\* no warning (the warnings number the files fiona could not open), and its
\* rows carry the schema's geometry and the declared lengths, 0 when none
\* is declared.
C8_SchemaOnlyFallback ==
    ScanReturned =>
        /\ Len(logs) = Cardinality(BrokenSlots)
        /\ \A slot \in ReadableSlots :
              tree[slot].gpd = "raise" =>
                 LET fields == DeclaredFields(slot)
                     rows   == RowsOf(filas, slot)
                     geom   == IF tree[slot].schema.geometry.present
                               THEN tree[slot].schema.geometry.v ELSE S_Unknown
                 IN  /\ Len(rows) = (IF fields = << >> THEN 1 ELSE Len(fields))
                     /\ \A i \in 1..Len(rows) : rows[i].TipoGeometria = geom
                     /\ \A i \in 1..Len(fields) :
                           rows[i].Longitud = DeclaredLength(fields[i][2])

\* A shapefile with declared fields whose gpd.read_file raised was scanned:
\* its rows are there and there is no warning.
C8_Witness ==
    /\ ScanReturned
    /\ logs = << >>
    /\ \E slot \in ReadableSlots :
          /\ tree[slot].gpd = "raise"
          /\ DeclaredFields(slot) # << >>
          /\ Len(RowsOf(filas, slot)) = Len(DeclaredFields(slot))
          /\ RowsOf(filas, slot)[1].TipoGeometria = S_Polygon

\* C9 as stated: in the written rows a folder or filename cell is blank
\* exactly when it equals the same column's cell of the preceding row of the
\* sorted table, and the returned table keeps every folder and filename.
C9_BlankIffConsecutive ==
    ScanReturned /\ ~excel_data.isnone =>
        /\ Len(excel_data.rows) = Len(df_result)
        /\ \A i \in 1..Len(df_result) :
              /\ excel_data.rows[i].CarpetaBase = << >>
                   <=> (i > 1 /\ df_result[i].CarpetaBase = df_result[i - 1].CarpetaBase)
              /\ excel_data.rows[i].NombreShapefile = << >>
                   <=> (i > 1 /\ df_result[i].NombreShapefile = df_result[i - 1].NombreShapefile)
              /\ df_result[i].CarpetaBase # << >>
              /\ df_result[i].NombreShapefile # << >>

\* C10: a data row of the sheet has the bold font and the fill on all six
\* columns if it is the first row of its folder in the sorted table, and on
\* no column otherwise; so every folder has exactly one highlighted row.
C10_FirstRowOfFolderHighlighted ==
    ScanReturned /\ ~excel_data.isnone =>
        /\ \A i \in 1..Len(df_result) :
              IF i = 1 \/ df_result[i].CarpetaBase # df_result[i - 1].CarpetaBase
              THEN \A col \in 1..6 : <<i + 1, col>> \in excel_data.styled
              ELSE \A col \in 1..6 : <<i + 1, col>> \notin excel_data.styled
        /\ \A cell \in excel_data.styled :
              cell[1] \in 2..(Len(df_result) + 1) /\ cell[2] \in 1..6
        /\ \A folder \in {df_result[i].CarpetaBase : i \in 1..Len(df_result)} :
              Cardinality({i \in 1..Len(df_result) :
                             /\ df_result[i].CarpetaBase = folder
                             /\ <<i + 1, 1>> \in excel_data.styled}) = 1

\* A sheet with two folders, one of them with several rows: two rows are
\* highlighted and one is not.
C10_Witness ==
    /\ ScanReturned
    /\ ~excel_data.isnone
    /\ Cardinality({df_result[i].CarpetaBase : i \in 1..Len(df_result)}) = 2
    /\ Cardinality({cell[1] : cell \in excel_data.styled}) = 2
    /\ Len(df_result) >= 3

====
